---- MODULE Spec2Model ----
(***************************************************************************)
(* Model of the versioned-store entity codec:                              *)
(* substrateToPlain, plainToSubstrate, propNameToJsFieldStyle and the      *)
(* EntityCodec class (constructor, inClassIndexOfProp, toPlainObject,      *)
(* toPlainObjects, toSubstrateUpdate).                                     *)
(*                                                                         *)
(* Representation.                                                         *)
(*  - A JavaScript string is a sequence of one-character strings.          *)
(*  - An integer (a bn.js BN, or a JavaScript number holding an integer)   *)
(*    is [negative, words]: little-endian digits in base 2^26, exactly the *)
(*    layout of bn.js, so that BN.toNumber is modelled on its real input.  *)
(*  - A plain JavaScript value is a record tagged by t (its typeof, with   *)
(*    "array" and "null" split from "object").                             *)
(*  - A codec value is a record tagged by k (the class it is an instance   *)
(*    of: Text, BN, bool, Vec, Null), or JavaScript null / undefined.      *)
(*  - A call that returns is Ok(v), a call that throws is Throw(e).        *)
(***************************************************************************)
EXTENDS Integers, Sequences, FiniteSets, TLC

\* ------------------------------------------------------------------------
\* Bounds of the model
\* ------------------------------------------------------------------------
MaxProps == 2
MaxVals == 2
MaxKeys == 2

\* ------------------------------------------------------------------------
\* Outcomes of a call
\* ------------------------------------------------------------------------
Ok(v) == [ok |-> TRUE, v |-> v]
Throw(e) == [ok |-> FALSE, err |-> e]

\* ------------------------------------------------------------------------
\* Strings
\* ------------------------------------------------------------------------
LowerChars == <<"a","b","c","d","e","f","g","h","i","j","k","l","m",
                "n","o","p","q","r","s","t","u","v","w","x","y","z">>
UpperChars == <<"A","B","C","D","E","F","G","H","I","J","K","L","M",
                "N","O","P","Q","R","S","T","U","V","W","X","Y","Z">>
DigitChars == <<"0","1","2","3","4","5","6","7","8","9">>

UpperSet == {UpperChars[i] : i \in 1..Len(UpperChars)}
LowerSet == {LowerChars[i] : i \in 1..Len(LowerChars)}
DigitSet == {DigitChars[i] : i \in 1..Len(DigitChars)}

IsUpper(c) == c \in UpperSet
IsLower(c) == c \in LowerSet
IsLetter(c) == IsUpper(c) \/ IsLower(c)
IsDigit(c) == c \in DigitSet

LowerOf == [c \in UpperSet |-> LowerChars[CHOOSE i \in 1..Len(UpperChars) : UpperChars[i] = c]]
UpperOf == [c \in LowerSet |-> UpperChars[CHOOSE i \in 1..Len(LowerChars) : LowerChars[i] = c]]

ToLowerChar(c) == IF IsUpper(c) THEN LowerOf[c] ELSE c
ToUpperChar(c) == IF IsLower(c) THEN UpperOf[c] ELSE c

\* String.prototype.toLowerCase
toLowerCase(s) == [i \in 1..Len(s) |-> ToLowerChar(s[i])]

\* ------------------------------------------------------------------------
\* Integers in the bn.js layout
\* ------------------------------------------------------------------------
WordBase == 67108864

Num(neg, ws) == [negative |-> neg, words |-> ws]

\* a small non-negative integer as a single word
NumOf(n) == Num(FALSE, <<n>>)

\* bn.js keeps at least one word and strips leading (most significant) zeros
RECURSIVE Strip(_)
Strip(ws) ==
  IF Len(ws) > 1 /\ ws[Len(ws)] = 0 THEN Strip(SubSeq(ws, 1, Len(ws) - 1)) ELSE ws

\* ws * 10 + d, on little-endian words
RECURSIVE MulAdd10(_, _)
MulAdd10(ws, d) ==
  IF ws = <<>> THEN (IF d = 0 THEN <<>> ELSE <<d>>)
  ELSE LET t == ws[1] * 10 + d
       IN  <<t % WordBase>> \o MulAdd10(Tail(ws), t \div WordBase)

DigitValue(c) == (CHOOSE i \in 1..Len(DigitChars) : DigitChars[i] = c) - 1

RECURSIVE ParseDigits(_, _)
ParseDigits(s, acc) ==
  IF s = <<>> THEN acc
  ELSE ParseDigits(Tail(s), MulAdd10(acc, DigitValue(Head(s))))

IsDecimalString(s) ==
  /\ Len(s) > 0
  /\ \A i \in 1..Len(s) : IsDigit(s[i])

\* the integer a decimal string denotes
ParseDecimal(s) ==
  LET ws == ParseDigits(s, <<>>)
  IN  Num(FALSE, IF ws = <<>> THEN <<0>> ELSE Strip(ws))

\* <<quotient words, remainder>> of ws \div 10; ws little-endian, processed
\* from the most significant word
RECURSIVE DivMod10(_)
DivMod10(ws) ==
  IF ws = <<>> THEN <<(<<>>), 0>>
  ELSE LET hi == DivMod10(SubSeq(ws, 2, Len(ws)))
           t  == hi[2] * WordBase + ws[1]
       IN  <<(<<t \div 10>> \o hi[1]), t % 10>>

RECURSIVE DecimalDigits(_)
DecimalDigits(ws) ==
  LET qr == DivMod10(ws)
      q  == Strip(qr[1])
  IN  IF q = <<0>> THEN <<DigitChars[qr[2] + 1]>>
      ELSE DecimalDigits(q) \o <<DigitChars[qr[2] + 1]>>

\* Number.prototype.toString of an integer
NumberToString(n) ==
  (IF n.negative /\ n.words # <<0>> THEN <<"-">> ELSE <<>>) \o DecimalDigits(n.words)

\* BN.prototype.toNumber: at most 53 bits, otherwise the assertion
\* 'Number can only safely store up to 53 bits' throws
toNumber(n) ==
  IF Len(n.words) <= 2 \/ (Len(n.words) = 3 /\ n.words[3] = 1)
  THEN Ok(n)
  ELSE Throw("NumberTooLarge")

\* ------------------------------------------------------------------------
\* Plain JavaScript values
\* ------------------------------------------------------------------------
PString(s) == [t |-> "string", s |-> s]
PNumber(n) == [t |-> "number", n |-> n]
PBoolean(b) == [t |-> "boolean", b |-> b]
PArray(a) == [t |-> "array", a |-> a]
PObject == [t |-> "object"]
PNull == [t |-> "null"]
PUndefined == [t |-> "undefined"]

\* ------------------------------------------------------------------------
\* Codec values
\* ------------------------------------------------------------------------
CText(s) == [k |-> "Text", s |-> s]
CBN(n) == [k |-> "BN", n |-> n]
CBool(b) == [k |-> "bool", b |-> b]
CVec(a) == [k |-> "Vec", a |-> a]
CNullCodec == [k |-> "Null"]
CNull == [k |-> "null"]
CUndefined == [k |-> "undefined"]

\* ------------------------------------------------------------------------
\* substrateToPlain
\* ------------------------------------------------------------------------
RECURSIVE substrateToPlain(_)
substrateToPlain(x) ==
  IF x.k = "Text" THEN Ok(PString(x.s))
  ELSE IF x.k = "BN" THEN
    LET r == toNumber(x.n) IN IF r.ok THEN Ok(PNumber(r.v)) ELSE r
  ELSE IF x.k = "bool" THEN Ok(PBoolean(x.b))
  ELSE IF x.k = "Vec" THEN
    LET ys == [i \in 1..Len(x.a) |-> substrateToPlain(x.a[i])]
    IN  IF \A i \in 1..Len(ys) : ys[i].ok
        THEN Ok(PArray([i \in 1..Len(ys) |-> ys[i].v]))
        ELSE ys[CHOOSE i \in 1..Len(ys) :
                  ~ys[i].ok /\ \A j \in 1..(i - 1) : ys[j].ok]
  \* typeof x !== undefined compares a string with undefined: always true
  ELSE IF x.k # "null" THEN
    IF x.k = "undefined" THEN Throw("TypeError") ELSE Ok(PString(<<>>))
  ELSE Ok(PUndefined)

\* ------------------------------------------------------------------------
\* PropertyValue variants (./PropertyValue): the value classes the encoder
\* instantiates.  Integer variants hold a BN, Text holds a string, Bool a
\* bool, None a Null codec, the Vec variants a Vec of the scalar class.
\* ------------------------------------------------------------------------
IntTypeNames == {"Uint16", "Uint32", "Uint64", "Int16", "Int32", "Int64", "Internal"}
IntVecTypeNames == {"Uint16Vec", "Uint32Vec", "Uint64Vec", "Int16Vec", "Int32Vec",
                    "Int64Vec", "InternalVec"}
PropertyTypeNames ==
  {"None", "Bool", "Text", "BoolVec", "TextVec"} \cup IntTypeNames \cup IntVecTypeNames

sTrue == <<"t","r","u","e">>
sFalse == <<"f","a","l","s","e">>
sYes == <<"y","e","s">>
sOne == <<"1">>
sObjectObject == <<"[","o","b","j","e","c","t"," ","O","b","j","e","c","t","]">>

\* an integer variant built from a number or a decimal string; no range check
PVInt(value) ==
  IF value.t = "number" THEN Ok(CBN(value.n))
  ELSE IF value.t = "string" /\ IsDecimalString(value.s) THEN Ok(CBN(ParseDecimal(value.s)))
  ELSE Throw("CodecError")

\* String(value) of a plain value
RECURSIVE JSToString(_)
JSToString(value) ==
  LET Joined[i \in 0..Len(value.a)] ==
        IF i = 0 THEN <<>>
        ELSE Joined[i - 1] \o (IF i > 1 THEN <<",">> ELSE <<>>)
               \o (IF value.a[i].t \in {"null", "undefined"} THEN <<>>
                   ELSE JSToString(value.a[i]))
  IN  CASE value.t = "string" -> value.s
        [] value.t = "number" -> NumberToString(value.n)
        [] value.t = "boolean" -> IF value.b THEN sTrue ELSE sFalse
        [] value.t = "array" -> Joined[Len(value.a)]
        [] value.t = "object" -> sObjectObject
        [] value.t = "null" -> <<"n","u","l","l">>
        [] OTHER -> <<"u","n","d","e","f","i","n","e","d">>

\* the Text variant holds the string form of its argument, the empty string
\* when the argument is left out
PVText(value) ==
  IF value.t = "undefined" THEN Ok(CText(<<>>)) ELSE Ok(CText(JSToString(value)))

PVBool(b) == Ok(CBool(b))

\* the elements of an array argument, none for any other argument
ElementsOf(value) == IF value.t = "array" THEN value.a ELSE <<>>

\* a Vec variant of an array argument, given the outcomes ys of building each
\* element by the scalar class: the Vec of the elements, or the first failure
PVVec(value, ys) ==
  IF value.t # "array" THEN Throw("CodecError")
  ELSE IF \A i \in 1..Len(ys) : ys[i].ok
       THEN Ok(CVec([i \in 1..Len(ys) |-> ys[i].v]))
       ELSE ys[CHOOSE i \in 1..Len(ys) : ~ys[i].ok /\ \A j \in 1..(i - 1) : ys[j].ok]

\* ------------------------------------------------------------------------
\* plainToSubstrate
\* ------------------------------------------------------------------------
\* new PropertyValue({ [propType]: typeEnum })
PropertyValueOf(propType, typeEnum) == [type |-> propType, value |-> typeEnum]

\* valueAsBool without the lower-casing of the string form
valueAsBool_CaseSensitive(value) ==
  IF value.t = "string" \/ value.t = "number" THEN
    LET str == IF value.t = "string" THEN value.s ELSE NumberToString(value.n)
    IN  Ok(str \in {sTrue, sYes, sOne})
  ELSE IF value.t = "boolean" THEN Ok(value.b)
  ELSE Throw("UnsupportedBoolean")

\* the closure valueAsBool: it reads the enclosing `value`, never an argument
valueAsBool(value) ==
  IF value.t = "string" \/ value.t = "number" THEN
    LET str == toLowerCase(IF value.t = "string" THEN value.s ELSE NumberToString(value.n))
    IN  Ok(str \in {sTrue, sYes, sOne})
  ELSE IF value.t = "boolean" THEN Ok(value.b)
  ELSE Throw("UnsupportedBoolean")

\* (value as []).map(valueAsBool): one call per element, each call reading
\* the enclosing `value` (the array itself)
valueAsBoolArr(value) ==
  IF value.t # "array" THEN Throw("TypeError")
  ELSE LET rs == [i \in 1..Len(value.a) |-> valueAsBool(value)]
       IN  IF \A i \in 1..Len(rs) : rs[i].ok
           THEN Ok([i \in 1..Len(rs) |-> rs[i].v])
           ELSE rs[CHOOSE i \in 1..Len(rs) : ~rs[i].ok]

plainToSubstrate(propType, value) ==
  LET ok(r) == IF r.ok THEN Ok(PropertyValueOf(propType, r.v)) ELSE r
      bools == valueAsBoolArr(value)
      b     == valueAsBool(value)
      elems == ElementsOf(value)
  IN  CASE propType = "None" -> ok(Ok(CNullCodec))
        [] propType = "Bool" -> IF b.ok THEN ok(PVBool(b.v)) ELSE b
        [] propType \in IntTypeNames -> ok(PVInt(value))
        [] propType = "Text" -> ok(PVText(value))
        [] propType = "BoolVec" ->
             IF bools.ok THEN ok(PVVec(value, [i \in 1..Len(bools.v) |-> PVBool(bools.v[i])]))
             ELSE bools
        [] propType \in IntVecTypeNames -> ok(PVVec(value, [i \in 1..Len(elems) |-> PVInt(elems[i])]))
        [] propType = "TextVec" -> ok(PVVec(value, [i \in 1..Len(elems) |-> PVText(elems[i])]))
        [] OTHER -> Throw("UnknownPropertyType")

\* ------------------------------------------------------------------------
\* propNameToJsFieldStyle: lodash camelCase on names of letters and
\* separators.  A word starts after a separator, at an upper-case letter
\* that follows a lower-case one, and at the last upper-case letter of an
\* upper-case run that is followed by a lower-case letter.  The first word
\* is lower-cased, every later word is lower-cased with its first letter
\* upper-cased, and the words are joined.
\* ------------------------------------------------------------------------
WordStart(s, i) ==
  /\ IsLetter(s[i])
  /\ \/ i = 1
     \/ ~IsLetter(s[i - 1])
     \/ IsLower(s[i - 1]) /\ IsUpper(s[i])
     \/ IsUpper(s[i - 1]) /\ IsUpper(s[i]) /\ i < Len(s) /\ IsLower(s[i + 1])

camelCase(s) ==
  LET idx == SelectSeq([i \in 1..Len(s) |-> i], LAMBDA i : IsLetter(s[i]))
  IN  [j \in 1..Len(idx) |->
         IF j > 1 /\ WordStart(s, idx[j]) THEN ToUpperChar(s[idx[j]])
         ELSE ToLowerChar(s[idx[j]])]

propNameToJsFieldStyle(humanFriendlyPropName) == camelCase(humanFriendlyPropName)

\* ------------------------------------------------------------------------
\* JavaScript Map and object helpers
\* ------------------------------------------------------------------------
EmptyMap == [x \in {} |-> x]
MapSet(m, key, v) == [x \in DOMAIN m \cup {key} |-> IF x = key THEN v ELSE m[x]]
MapHas(m, key) == key \in DOMAIN m

\* JavaScript truthiness of a string that may be undefined
Truthy(str) == str # <<>>

kClassId == <<"c","l","a","s","s","I","d">>
kInClassSchemaIndexes ==
  <<"i","n","C","l","a","s","s","S","c","h","e","m","a","I","n","d","e","x","e","s">>
kId == <<"i","d">>

\* ------------------------------------------------------------------------
\* class EntityCodec
\* ------------------------------------------------------------------------
VARIABLES
  classes, \* instance -> the entityClass its constructor was given
  codecs,  \* instance -> [propNameToMetaMap, propIndexToNameMap]
  call     \* the call in progress: its operation, receiver, argument, outcome

vars == <<classes, codecs, call>>

Instances == {1, 2}

\* the constructor's loop over entityClass.properties, from position index
RECURSIVE ConstructFrom(_, _, _)
ConstructFrom(properties, index, this) ==
  IF index >= Len(properties) THEN this
  ELSE LET p == properties[index + 1]
           propName == propNameToJsFieldStyle(p.name)
           propMeta == [index |-> index, type |-> p.prop_type]
       IN  ConstructFrom(properties, index + 1,
             [propNameToMetaMap |-> MapSet(this.propNameToMetaMap, propName, propMeta),
              propIndexToNameMap |-> MapSet(this.propIndexToNameMap, index, propName)])

EntityCodecNew(entityClass) ==
  ConstructFrom(entityClass.properties, 0,
    [propNameToMetaMap |-> EmptyMap, propIndexToNameMap |-> EmptyMap])

\* Every method yields [ret, this]: what it returns or throws, and the
\* receiver's fields when it ends.

\* inClassIndexOfProp taking index 0 for a missing property
inClassIndexOfProp_FalsyZero(this, propName) ==
  [ret |-> IF MapHas(this.propNameToMetaMap, propName)
              /\ this.propNameToMetaMap[propName].index # 0
           THEN Ok([defined |-> TRUE, index |-> this.propNameToMetaMap[propName].index])
           ELSE Ok([defined |-> FALSE]),
   this |-> this]

inClassIndexOfProp(this, propName) ==
  [ret |-> IF MapHas(this.propNameToMetaMap, propName)
           THEN Ok([defined |-> TRUE, index |-> this.propNameToMetaMap[propName].index])
           ELSE Ok([defined |-> FALSE]),
   this |-> this]

\* entity.entity_values.forEach(...), on the object res built so far
RECURSIVE DecodeValues(_, _, _)
DecodeValues(this, values, res) ==
  IF values = <<>> THEN Ok(res)
  ELSE LET v == Head(values)
           propIdx == v.in_class_index
           known == MapHas(this.propIndexToNameMap, propIdx)
           propName == this.propIndexToNameMap[propIdx]
           plain == substrateToPlain(v.value.value)
       IN  IF known /\ Truthy(propName)
           THEN IF plain.ok
                THEN DecodeValues(this, Tail(values), MapSet(res, propName, plain.v))
                ELSE plain
           ELSE DecodeValues(this, Tail(values), res)

\* x.map(y => y.toNumber()) on a sequence of integers
NumbersOf(xs) ==
  LET ys == [i \in 1..Len(xs) |-> toNumber(xs[i])]
  IN  IF \A i \in 1..Len(ys) : ys[i].ok
      THEN Ok(PArray([i \in 1..Len(ys) |-> PNumber(ys[i].v)]))
      ELSE ys[CHOOSE i \in 1..Len(ys) : ~ys[i].ok /\ \A j \in 1..(i - 1) : ys[j].ok]

toPlainObject(this, entity) ==
  LET classId == toNumber(entity.class_id)
      inClassSchemaIndexes == NumbersOf(entity.in_class_schema_indexes)
      id == toNumber(entity.id)
      res == [key \in {kClassId, kInClassSchemaIndexes, kId} |->
                IF key = kClassId THEN PNumber(classId.v)
                ELSE IF key = kInClassSchemaIndexes THEN inClassSchemaIndexes.v
                ELSE PNumber(id.v)]
  IN  [ret |-> IF ~classId.ok THEN classId
               ELSE IF ~inClassSchemaIndexes.ok THEN inClassSchemaIndexes
               ELSE IF ~id.ok THEN id
               ELSE DecodeValues(this, entity.entity_values, res),
       this |-> this]

\* entities.map(e => this.toPlainObject(e)).filter(e => typeof e !== undefined):
\* typeof never equals undefined, so the filter keeps every element
toPlainObjects(this, entities) ==
  LET rs == [i \in 1..Len(entities) |-> toPlainObject(this, entities[i]).ret]
  IN  [ret |-> IF \A i \in 1..Len(rs) : rs[i].ok
               THEN Ok([i \in 1..Len(rs) |-> rs[i].v])
               ELSE rs[CHOOSE i \in 1..Len(rs) : ~rs[i].ok /\ \A j \in 1..(i - 1) : rs[j].ok],
       this |-> this]

\* Object.keys(updatedProps).map(...), on the vector res built so far;
\* updatedProps is the sequence of [key, value] in enumeration order
RECURSIVE EncodeProps(_, _, _)
EncodeProps(this, updatedProps, res) ==
  IF updatedProps = <<>> THEN Ok(res)
  ELSE LET propName == Head(updatedProps).key
           plainValue == Head(updatedProps).value
           meta == this.propNameToMetaMap[propName]
           \* try { codecValue = plainToSubstrate(...) } catch (err) { console.error(...) }
           codecValue == plainToSubstrate(meta.type, plainValue)
       IN  IF MapHas(this.propNameToMetaMap, propName) /\ codecValue.ok
           THEN EncodeProps(this, Tail(updatedProps),
                  Append(res, [in_class_index |-> meta.index, value |-> codecValue.v]))
           ELSE EncodeProps(this, Tail(updatedProps), res)

\* toSubstrateUpdate without the try/catch around plainToSubstrate
RECURSIVE EncodeProps_Uncaught(_, _, _)
EncodeProps_Uncaught(this, updatedProps, res) ==
  IF updatedProps = <<>> THEN Ok(res)
  ELSE LET propName == Head(updatedProps).key
           meta == this.propNameToMetaMap[propName]
           codecValue == plainToSubstrate(meta.type, Head(updatedProps).value)
       IN  IF ~MapHas(this.propNameToMetaMap, propName)
           THEN EncodeProps_Uncaught(this, Tail(updatedProps), res)
           ELSE IF ~codecValue.ok THEN codecValue
           ELSE EncodeProps_Uncaught(this, Tail(updatedProps),
                  Append(res, [in_class_index |-> meta.index, value |-> codecValue.v]))

toSubstrateUpdate_Uncaught(this, updatedProps) ==
  [ret |-> EncodeProps_Uncaught(this, updatedProps, <<>>), this |-> this]

\* toSubstrateUpdate recording in its name map the field names it does not know
RECURSIVE RememberUnknown(_, _)
RememberUnknown(this, updatedProps) ==
  IF updatedProps = <<>> THEN this
  ELSE LET propName == Head(updatedProps).key
       IN  RememberUnknown(
             IF MapHas(this.propNameToMetaMap, propName) THEN this
             ELSE [this EXCEPT !.propNameToMetaMap =
                     MapSet(@, propName, [index |-> 0, type |-> "None"])],
             Tail(updatedProps))

toSubstrateUpdate_Remembering(this, updatedProps) ==
  [ret |-> EncodeProps(this, updatedProps, <<>>), this |-> RememberUnknown(this, updatedProps)]

toSubstrateUpdate(this, updatedProps) ==
  [ret |-> EncodeProps(this, updatedProps, <<>>), this |-> this]

\* ------------------------------------------------------------------------
\* Inputs
\* ------------------------------------------------------------------------
SeqsUpTo(S, n) == UNION {[1..len -> S] : len \in 0..n}

nTitle == <<"T","i","t","l","e">>
nId == <<"I","d">>
nIsOkSpaced == <<"I","s"," ","o","k">>
nIsOk == <<"i","s","O","k">>
nTags == <<"T","a","g","s">>
fTitle == <<"t","i","t","l","e">>
fTags == <<"t","a","g","s">>
fOther == <<"z","z">>
sHi == <<"h","i">>
sYesCapital == <<"Y","e","s">>
sTrueUpper == <<"T","R","U","E">>
sNo == <<"n","o">>
sZero == <<"0">>
sMaxUint64 ==
  <<"1","8","4","4","6","7","4","4","0","7","3","7","0","9","5","5","1","6","1","5">>

Prop(name, type) == [name |-> name, prop_type |-> type]

\* property descriptors: two names with the same field name (isOk), one whose
\* field name is a metadata key (id), one type name outside the fixed set
PropertyUniverse ==
  {Prop(nTitle, "Text"), Prop(nId, "Uint64"), Prop(nIsOkSpaced, "Bool"),
   Prop(nIsOk, "BoolVec"), Prop(nTags, "Float")}

Classes == {[properties |-> ps] : ps \in SeqsUpTo(PropertyUniverse, MaxProps)}

OtherClass == [properties |-> <<Prop(nIsOkSpaced, "Bool"), Prop(nTitle, "Text")>>]

FieldNames == {fTitle, kId, nIsOk, fTags, fOther, nTitle, <<>>}

\* 2^53 and 2^64 - 1 need more than 53 bits, 2^52 does not
Two52 == Num(FALSE, <<0, 0, 1>>)
Two53 == Num(FALSE, <<0, 0, 2>>)
MaxUint64 == Num(FALSE, <<67108863, 67108863, 4095>>)

\* values of update fields
UpdateValues ==
  {PString(sOne), PObject, PArray(<<PString(sYes), PNumber(NumOf(0)), PBoolean(TRUE)>>)}
\* field names of the property universe; each is unknown to the instances
\* whose class lacks the property
UpdateKeys == {fTitle, kId, nIsOk, fTags}

Updates ==
  {u \in SeqsUpTo([key : UpdateKeys, value : UpdateValues], MaxKeys) :
     \A i, j \in 1..Len(u) : u[i].key = u[j].key => i = j}

\* (index, typed value) pairs of raw records; index MaxProps is in no schema
ClassPropertyValue(i, type, x) ==
  [in_class_index |-> i, value |-> PropertyValueOf(type, x)]

EntityValues ==
  {ClassPropertyValue(0, "Text", CText(sHi)),
   ClassPropertyValue(0, "Text", CNull),
   ClassPropertyValue(1, "Uint64", CBN(NumOf(7))),
   ClassPropertyValue(1, "Uint64", CBN(Two53)),
   ClassPropertyValue(0, "BoolVec", CVec(<<CBool(TRUE), CBool(FALSE)>>)),
   ClassPropertyValue(MaxProps, "Bool", CBool(TRUE))}

Entity(id, values) ==
  [class_id |-> NumOf(1), in_class_schema_indexes |-> <<NumOf(0)>>, id |-> id,
   entity_values |-> values]

Entities ==
  {Entity(NumOf(5), vs) : vs \in SeqsUpTo(EntityValues, MaxVals)}
    \cup {Entity(MaxUint64, <<>>)}

\* the records given to toPlainObjects carry at most one value each
EntityLists ==
  SeqsUpTo({e \in Entities : Len(e.entity_values) <= 1}, MaxVals)

\* arguments of the encoder
PlainValues ==
  {PString(sTrue), PString(sYesCapital), PString(sOne), PNumber(NumOf(1)), PBoolean(TRUE),
   PString(sTrueUpper),
   PString(sFalse), PString(sNo), PString(sZero), PNumber(NumOf(0)), PBoolean(FALSE),
   PString(sHi), PNumber(NumOf(7)), PNumber(Two52), PNumber(Two53), PString(sMaxUint64),
   PObject, PNull, PUndefined, PArray(<<>>),
   PArray(<<PString(sYes), PNumber(NumOf(0)), PBoolean(TRUE)>>)}

TypeNames == PropertyTypeNames \cup {"Float"}

\* ------------------------------------------------------------------------
\* Specification
\* ------------------------------------------------------------------------
NoCall == [op |-> "none"]

\* every instance is constructed: instance 1 for any class, instance 2 for
\* OtherClass
Init ==
  /\ \E cls \in Classes : classes = [c \in Instances |-> IF c = 1 THEN cls ELSE OtherClass]
  /\ codecs = [c \in Instances |-> EntityCodecNew(classes[c])]
  /\ call = NoCall

\* A method call on instance c: the instance keeps the fields the method
\* leaves it with, and the call record holds what the method returned or threw.

InClassIndexOfProp(c, propName) ==
  LET r == inClassIndexOfProp(codecs[c], propName)
  IN  /\ call = NoCall
      /\ codecs' = [codecs EXCEPT ![c] = r.this]
      /\ UNCHANGED classes
      /\ call' = [op |-> "inClassIndexOfProp", c |-> c, arg |-> propName, ret |-> r.ret]

ToPlainObject(c, entity) ==
  LET r == toPlainObject(codecs[c], entity)
  IN  /\ call = NoCall
      /\ codecs' = [codecs EXCEPT ![c] = r.this]
      /\ UNCHANGED classes
      /\ call' = [op |-> "toPlainObject", c |-> c, arg |-> entity, ret |-> r.ret]

ToPlainObjects(c, entities) ==
  LET r == toPlainObjects(codecs[c], entities)
  IN  /\ call = NoCall
      /\ codecs' = [codecs EXCEPT ![c] = r.this]
      /\ UNCHANGED classes
      /\ call' = [op |-> "toPlainObjects", c |-> c, arg |-> entities, ret |-> r.ret]

ToSubstrateUpdate(c, updatedProps) ==
  LET r == toSubstrateUpdate(codecs[c], updatedProps)
  IN  /\ call = NoCall
      /\ codecs' = [codecs EXCEPT ![c] = r.this]
      /\ UNCHANGED classes
      /\ call' = [op |-> "toSubstrateUpdate", c |-> c, arg |-> updatedProps, ret |-> r.ret]

\* the module's two conversion functions applied on their own
PlainToSubstrate(propType, value) ==
  /\ call = NoCall
  /\ call' = [op |-> "plainToSubstrate", propType |-> propType, value |-> value,
              ret |-> plainToSubstrate(propType, value)]
  /\ UNCHANGED <<classes, codecs>>

\* encode a value, then decode the typed value it produced
EncodeThenDecode(propType, value) ==
  /\ call = NoCall
  /\ LET enc == plainToSubstrate(propType, value)
     IN  /\ enc.ok
         /\ call' = [op |-> "encodeThenDecode", propType |-> propType, value |-> value,
                     ret |-> substrateToPlain(enc.v.value)]
  /\ UNCHANGED <<classes, codecs>>

\* the synchronous call is over: the caller has its result
Return ==
  /\ call # NoCall
  /\ call' = NoCall
  /\ UNCHANGED <<classes, codecs>>

Idle == call = NoCall

Next ==
  \/ Idle /\ \E c \in Instances, propName \in FieldNames : InClassIndexOfProp(c, propName)
  \/ Idle /\ \E c \in Instances, entity \in Entities : ToPlainObject(c, entity)
  \/ Idle /\ \E c \in Instances, entities \in EntityLists : ToPlainObjects(c, entities)
  \/ Idle /\ \E c \in Instances, updatedProps \in Updates : ToSubstrateUpdate(c, updatedProps)
  \/ Idle /\ \E propType \in TypeNames, value \in PlainValues : PlainToSubstrate(propType, value)
  \/ Idle /\ \E propType \in TypeNames, value \in PlainValues : EncodeThenDecode(propType, value)
  \/ Return

Spec == Init /\ [][Next]_vars

\* ------------------------------------------------------------------------
\* Properties
\* ------------------------------------------------------------------------
\* the field names of the properties of instance c's class, by position from 0
FieldNamesOf(c) ==
  [i \in 0..(Len(classes[c].properties) - 1) |->
     propNameToJsFieldStyle(classes[c].properties[i + 1].name)]
Distinct(names) == \A i, j \in DOMAIN names : names[i] = names[j] => i = j

C2_MetadataPassthrough ==
  (call.op = "toPlainObject" /\ call.ret.ok) =>
    /\ call.ret.v[kId] = PNumber(call.arg.id)
    /\ call.ret.v[kClassId] = PNumber(call.arg.class_id)
    /\ call.ret.v[kInClassSchemaIndexes] =
         PArray([i \in 1..Len(call.arg.in_class_schema_indexes) |->
                   PNumber(call.arg.in_class_schema_indexes[i])])

\* the inputs the claim lists as true, with "TRUE"
BoolTrueInputs ==
  {PString(sTrue), PString(sYesCapital), PString(sOne), PString(sTrueUpper),
   PNumber(NumOf(1)), PBoolean(TRUE)}

\* C3: encoding x under Bool gives x for a boolean, true for a string or number
\* whose lower-cased string form is "true", "yes" or "1" and false for every
\* other string or number, and fails with the unsupported-boolean error for
\* any other x.
C3_BoolCoercion ==
  (call.op = "plainToSubstrate" /\ call.propType = "Bool") =>
    call.ret = IF call.value.t \in {"string", "number", "boolean"}
               THEN Ok(PropertyValueOf("Bool", CBool(call.value \in BoolTrueInputs)))
               ELSE Throw("UnsupportedBoolean")

C3_Witness ==
  /\ call.op = "plainToSubstrate"
  /\ call.propType = "Bool"
  /\ call.value = PString(sYesCapital)
  /\ call.ret = Ok(PropertyValueOf("Bool", CBool(TRUE)))

\* C4: for a class whose N property names give N distinct field names, the
\* index-to-name map holds exactly 0..N-1 with the field name of each position,
\* the name map holds exactly those names, and inClassIndexOfProp gives
\* position i for the field name of position i and nothing for any other name.
C4_IndexOfField ==
  \A c \in Instances :
    \A names \in {FieldNamesOf(c)} :
    Distinct(names) =>
      /\ DOMAIN codecs[c].propIndexToNameMap = DOMAIN names
      /\ \A i \in DOMAIN names : codecs[c].propIndexToNameMap[i] = names[i]
      /\ DOMAIN codecs[c].propNameToMetaMap = {names[i] : i \in DOMAIN names}
      /\ (call.op = "inClassIndexOfProp" /\ call.c = c) =>
           call.ret = IF \E i \in DOMAIN names : names[i] = call.arg
                      THEN Ok([defined |-> TRUE,
                               index |-> CHOOSE i \in DOMAIN names : names[i] = call.arg])
                      ELSE Ok([defined |-> FALSE])

\* the first of two distinctly named properties was looked up
C4_Witness ==
  /\ call.op = "inClassIndexOfProp"
  /\ call.c = 1
  /\ Len(classes[1].properties) >= 2
  /\ Distinct(FieldNamesOf(1))
  /\ call.arg = FieldNamesOf(1)[0]
  /\ call.ret = Ok([defined |-> TRUE, index |-> 0])

\* C5: when the values list holds a pair whose index is not in the
\* index-to-name map, toPlainObject succeeds and returns what it returns for
\* the record without such pairs.
C5_UnknownIndexDropped ==
  LET KnownIndex(v) == v.in_class_index \in DOMAIN codecs[call.c].propIndexToNameMap
  IN  (/\ call.op = "toPlainObject"
       /\ \E i \in 1..Len(call.arg.entity_values) : ~KnownIndex(call.arg.entity_values[i]))
      => /\ call.ret.ok
         /\ call.ret =
              toPlainObject(codecs[call.c],
                [call.arg EXCEPT !.entity_values = SelectSeq(@, KnownIndex)]).ret

\* C6: toPlainObject and toPlainObjects never raise.
C6_DecodeNeverRaises ==
  call.op \in {"toPlainObject", "toPlainObjects"} => call.ret.ok

\* C7: no method call changes the name map or the index map of any instance.
C7_MapsImmutable == [][codecs' = codecs]_vars

\* an update with a skipped field was encoded and the maps are the constructor's
C7_Witness ==
  /\ call.op = "toSubstrateUpdate"
  /\ call.ret.ok
  /\ Len(call.ret.v) < Len(call.arg)
  /\ \A c \in Instances : codecs[c] = EntityCodecNew(classes[c])

ScalarTypeNames == {"Bool", "Text"} \cup IntTypeNames

\* representative values of a scalar type: booleans, strings, and integers
\* (numbers or decimal strings) of the type's width
RepresentativeValues(type) ==
  CASE type = "Bool" -> {PBoolean(TRUE), PBoolean(FALSE)}
    [] type = "Text" -> {PString(sHi), PString(sYesCapital), PString(sZero)}
    [] type \in {"Uint64", "Int64", "Internal"} ->
         {PNumber(NumOf(0)), PNumber(NumOf(7)), PString(sOne), PNumber(Two52),
          PNumber(Two53)}
           \cup (IF type = "Int64" THEN {} ELSE {PString(sMaxUint64)})
    [] OTHER -> {PNumber(NumOf(0)), PNumber(NumOf(7)), PString(sOne)}

EqualUnder(type, plain, value) ==
  CASE type = "Bool" -> plain = value
    [] type = "Text" -> plain = value
    [] OTHER -> /\ plain.t = "number"
                /\ plain.n = (IF value.t = "number" THEN value.n ELSE ParseDecimal(value.s))

\* C8: decoding the typed value that encoding a representative value v under a
\* scalar type produces gives a value equal to v.
C8_RoundTrip ==
  (/\ call.op = "encodeThenDecode"
   /\ call.propType \in ScalarTypeNames
   /\ call.value \in RepresentativeValues(call.propType))
  => /\ call.ret.ok
     /\ EqualUnder(call.propType, call.ret.v, call.value)

\* C9: an array of strings, numbers and booleans given for a BoolVec property
\* is encoded as the BoolVec of its elements' boolean coercions, in order.
C9_BoolVecElementwise ==
  call.op = "toSubstrateUpdate" =>
    LET map == codecs[call.c].propNameToMetaMap IN
    \A i \in 1..Len(call.arg) :
      LET x == call.arg[i].value IN
      (/\ call.arg[i].key \in DOMAIN map
       /\ map[call.arg[i].key].type = "BoolVec"
       /\ x.t = "array"
       /\ \A e \in 1..Len(x.a) : x.a[e].t \in {"string", "number", "boolean"})
      => /\ call.ret.ok
         /\ \E j \in 1..Len(call.ret.v) :
              call.ret.v[j] =
                [in_class_index |-> map[call.arg[i].key].index,
                 value |-> PropertyValueOf("BoolVec",
                   CVec([e \in 1..Len(x.a) |-> CBool(x.a[e] \in BoolTrueInputs)]))]

\* the plain value a non-null typed value stands for
RECURSIVE Represented(_)
Represented(x) ==
  CASE x.k = "Text" -> PString(x.s)
    [] x.k = "BN" -> PNumber(x.n)
    [] x.k = "bool" -> PBoolean(x.b)
    [] x.k = "Vec" -> PArray([i \in 1..Len(x.a) |-> Represented(x.a[i])])
    [] OTHER -> PString(<<>>)

\* C10: a field all of whose pairs carry a null typed value is no key of the
\* plain object; the field of a non-null pair holds the value decoded by
\* representation.
C10_NullOmitted ==
  (call.op = "toPlainObject" /\ call.ret.ok) =>
    LET vs == call.arg.entity_values
        map == codecs[call.c].propIndexToNameMap
        Named(i) == vs[i].in_class_index \in DOMAIN map /\ Truthy(map[vs[i].in_class_index])
        NameOf(i) == map[vs[i].in_class_index]
        Same(i) == {j \in 1..Len(vs) : Named(j) /\ NameOf(j) = NameOf(i)}
    IN  \A i \in 1..Len(vs) :
          Named(i) =>
            /\ (\A j \in Same(i) : vs[j].value.value = CNull)
                 /\ NameOf(i) \notin {kId, kClassId, kInClassSchemaIndexes}
               => NameOf(i) \notin DOMAIN call.ret.v
            /\ (vs[i].value.value # CNull /\ \A j \in Same(i) : j <= i)
               => call.ret.v[NameOf(i)] = Represented(vs[i].value.value)

====
